---------------------------- MODULE Spec2Model ----------------------------
(***************************************************************************)
(* Model of BARTfunc.py, main(comm): the BART worker that sits between the *)
(* MCMC driver (channel comm) and the spawned transit engine (channel      *)
(* transitcomm).  One action per step of main(); every collective call is  *)
(* one action and is appended to the history variable log.                 *)
(*                                                                         *)
(* Numbers: temperatures are integers in kelvin; abundances are integers   *)
(* in units of 1/One (One stands for the float 1.0).  The data are chosen  *)
(* so that every division of the abundance arithmetic is exact.            *)
(***************************************************************************)
EXTENDS Integers, Sequences, FiniteSets, TLC

VARIABLES
  pc,         \* position of the worker in main()
  args2,      \* parsed options: solution, molfit, filter
  atm,        \* atmosphere read at setup: pressure, abundances, ratio, indices
  array1,     \* <<npars, niter>> as broadcast by the driver
  niter,      \* remaining-iterations counter
  imol,       \* indices of the fit molecules in species
  params,     \* parameter vector of the current pass
  profiles,   \* profiles[0] temperature row, profiles[1..nspecies] abundances
  ptError,    \* TRUE iff PT_generator raised ValueError in the current pass
  nwave,      \* number of spectral samples reported by transit
  specwn,     \* wavenumber array received from transit
  nifilter,   \* per filter: normalized interpolated response
  istarfl,    \* per filter: interpolated stellar flux
  wnindices,  \* per filter: indices into specwn
  spectrum,   \* spectrum received from transit
  bandflux,   \* band-integrated fluxes
  driverOut,  \* last payload gathered to the driver
  engineOut,  \* last payload scattered to transit
  log,        \* history: the collective calls issued so far, in order
  peerLoop,   \* "none": peers answer every call; "counting": they count cycles
  driver,     \* the driver's position in its own sequence of collectives
  engine      \* the engine's position in its own sequence of collectives

vars == <<pc, args2, atm, array1, niter, imol, params, profiles, ptError, nwave,
          specwn, nifilter, istarfl, wnindices, spectrum, bandflux,
          driverOut, engineOut, log, peerLoop, driver, engine>>

wvars == <<args2, atm, array1, niter, imol, params, profiles, ptError, nwave,
           specwn, nifilter, istarfl, wnindices, spectrum, bandflux,
           driverOut, engineOut>>

-----------------------------------------------------------------------------
(* Bounds of the model *)

\* largest iteration budget the driver broadcasts
MaxIter == 2

-----------------------------------------------------------------------------
(* Program constants and input data *)

Tmin == 400
Tmax == 3000

\* the float 1.0 of the abundance arithmetic, in model units
One == 1000000

\* the choices of --solution
SolutionChoices == {"transit", "eclipse"}
\* its default
SolutionDefault == "None"

\* mat.readatm(atmfile): species, pressure (file order), abundances[layer][species]
species == <<"H2", "He", "H2O", "CO">>
filePressure == <<2, 1>>
fileAbundances == << <<799920, 199980, 100, 0>>, <<499250, 499250, 1000, 500>> >>

\* the --params option: one entry per free parameter
cfgParams == <<1500, 0, 0>>

\* planet-to-star radius ratio as a fraction <<numerator, denominator>>
rprs == <<1, 2>>

\* budgets the driver may broadcast
Budgets == (-1)..MaxIter

\* parameter vectors the driver may scatter: <<PT par 1, PT par 2, log10 scale>>
PTSet == {<<399, 0>>, <<400, 0>>, <<3000, 0>>, <<2999, 1>>, <<-2200, 2600>>,
          <<400, -400>>}
ExpSet == {-1, 0}
ParamSet == {<<t[1], t[2], e>> : t \in PTSet, e \in ExpSet}

\* molecule lists and filter supports a configuration may name
MolfitSet == {<<"H2O">>, <<"CH4">>}
\* w.readfilter(ffile[i]): first and last wavenumber of the filter
FilterSupports == {<<10, 20>>, <<20, 30>>, <<5, 20>>}
FfileSet == {<<a, b>> : a \in FilterSupports, b \in FilterSupports}

\* what transit may report: sample count, the grid, a spectrum
NwaveSet == {2, 3}
Grid(n) == [k \in 1..n |-> 10 * k]
Spectra(n) == {[k \in 1..n |-> v] : v \in {8, 16}}

-----------------------------------------------------------------------------
(* Helpers *)

RECURSIVE GCD(_, _)
GCD(a, b) == IF b = 0 THEN a ELSE GCD(b, a % b)

Reverse(s) == [k \in 1..Len(s) |-> s[Len(s) + 1 - k]]

RECURSIVE SumSeq(_)
SumSeq(s) == IF s = <<>> THEN 0 ELSE Head(s) + SumSeq(Tail(s))

RECURSIVE Concat(_)
Concat(ss) == IF ss = <<>> THEN <<>> ELSE Head(ss) \o Concat(Tail(ss))

RECURSIVE Pow10(_)
Pow10(n) == IF n = 0 THEN 1 ELSE 10 * Pow10(n - 1)

\* a * 10.0**e
Scale10(a, e) == IF e >= 0 THEN a * Pow10(e) ELSE a \div Pow10(-e)

\* np.where(species == name)[0]: the indices (0-based) where name occurs
Where(name) == {k \in 0..(Len(species) - 1) : species[k + 1] = name}

Call(ch, op, what) == [ch |-> ch, op |-> op, what |-> what]

-----------------------------------------------------------------------------
(* Setup quantities, lines 205-224 *)

nlayers  == Len(filePressure)
nspecies == Len(species)
\* line 218: H2/He abundance ratio per layer, as a reduced fraction
RatioOf(ab, h2, he) ==
  [l \in 1..Len(ab) |->
     LET a == ab[l][h2 + 1]
         b == ab[l][he + 1]
         g == GCD(a, b)
     IN  <<a \div g, b \div g>>]
\* lines 206-220: what setup reads and derives from the atmosphere file
ReadAtm ==
  LET h2 == CHOOSE k \in Where("H2") : TRUE
      he == CHOOSE k \in Where("He") : TRUE
  IN  [pressure   |-> Reverse(filePressure),
       abundances |-> fileAbundances,
       iH2        |-> h2,
       iHe        |-> he,
       ratio      |-> RatioOf(fileAbundances, h2, he),
       imetals    |-> {k \in 0..(nspecies - 1) :
                         species[k + 1] # "He" /\ species[k + 1] # "H2"}]
\* the arrays of main() after setup
pressure   == atm.pressure
abundances == atm.abundances
iH2        == atm.iH2
iHe        == atm.iHe
ratio      == atm.ratio
imetals    == atm.imetals
nfree == Len(cfgParams)
nmolfit == Len(args2.molfit)
nPT == nfree - nmolfit
nfilters == Len(args2.ffile)
nprofile == nlayers * (nspecies + 1)

-----------------------------------------------------------------------------
(* External collaborators: PT.py and wine.py *)

\* pt.PT_generator(pressure, PTpars, PTargs): one temperature per layer;
\* raises ValueError for a non-physical profile (a negative temperature)
PT_generator(p, ptpars) ==
  LET T == [l \in 1..Len(p) |-> ptpars[1] + ptpars[2] * p[l]]
  IN  [raises |-> \E l \in 1..Len(p) : T[l] < 0, value |-> T]

\* w.resample: the grid indices inside the filter's support, in order
RECURSIVE IndicesFrom(_, _, _)
IndicesFrom(k, wn, fw) ==
  IF k > Len(wn) THEN <<>>
  ELSE (IF fw[1] <= wn[k] /\ wn[k] <= fw[2] THEN <<k>> ELSE <<>>)
       \o IndicesFrom(k + 1, wn, fw)

resample(wn, fw) ==
  LET ind == IndicesFrom(1, wn, fw)
  IN  [nifilt |-> [k \in 1..Len(ind) |-> 1],
       strfl  |-> [k \in 1..Len(ind) |-> 2],
       wnind  |-> ind]

\* w.bandintegrate: response-weighted sum of the samples
bandintegrate(samples, nifilt) ==
  SumSeq([k \in 1..Len(samples) |-> samples[k] * nifilt[k]])

-----------------------------------------------------------------------------
(* Pure steps of main() *)

\* variant of FilterOutside that forgets the upper end of the filter
FilterOutside_StartOnly(filtwaven, wn) ==
  filtwaven[1] < wn[1]

\* line 303: the filter is not covered by the spectrum's wavenumber range
FilterOutside(filtwaven, wn) ==
  filtwaven[1] < wn[1] \/ filtwaven[Len(filtwaven)] > wn[Len(wn)]

\* variant of OutOfBounds that forgets the upper bound
OutOfBounds_TminOnly(temp) ==
  \E l \in 1..Len(temp) : temp[l] < Tmin

\* line 343: the temperature goes out of bounds
OutOfBounds(temp) ==
  (\E l \in 1..Len(temp) : temp[l] < Tmin) \/ (\E l \in 1..Len(temp) : temp[l] > Tmax)

\* line 345: -np.ones(nfilters)
Sentinel == [i \in 1..nfilters |-> -1]

RECURSIVE SumRows(_, _, _)
SumRows(S, prof, l) ==
  IF S = {} THEN 0
  ELSE LET m == CHOOSE x \in S : TRUE
       IN  prof[m + 1][l] + SumRows(S \ {m}, prof, l)

\* lines 351-354: scale the fit molecules' rows from the baseline abundances
RECURSIVE ScaleRows(_, _, _)
ScaleRows(prof, par, i) ==
  IF i > nmolfit THEN prof
  ELSE LET m == imol[i]
       IN  ScaleRows([prof EXCEPT ![m + 1] =
                        [l \in 1..nlayers |-> Scale10(abundances[l][m + 1], par[nPT + i])]],
                     par, i + 1)

\* lines 356-358 with q taken from the baseline metals instead of the rows
\* just scaled
Rebalance_Stale(prof) ==
  LET q  == [l \in 1..nlayers |->
               One - SumSeq([k \in 1..nspecies |->
                               IF (k - 1) \in imetals THEN abundances[l][k] ELSE 0])]
      p1 == [prof EXCEPT ![iH2 + 1] =
               [l \in 1..nlayers |-> (ratio[l][1] * q[l]) \div (ratio[l][2] + ratio[l][1])]]
  IN  [p1 EXCEPT ![iHe + 1] =
         [l \in 1..nlayers |-> (ratio[l][2] * q[l]) \div (ratio[l][2] + ratio[l][1])]]

\* lines 356-358: H2 and He share what the metals leave
Rebalance(prof) ==
  LET q  == [l \in 1..nlayers |-> One - SumRows(imetals, prof, l)]
      p1 == [prof EXCEPT ![iH2 + 1] =
               [l \in 1..nlayers |-> (ratio[l][1] * q[l]) \div (ratio[l][2] + ratio[l][1])]]
  IN  [p1 EXCEPT ![iHe + 1] =
         [l \in 1..nlayers |-> (ratio[l][2] * q[l]) \div (ratio[l][2] + ratio[l][1])]]

\* a flattening that leaves the temperature row out
Flatten_NoTemperature(prof) == Concat([r \in 1..nspecies |-> prof[r]])

\* profiles.flatten()
Flatten(prof) == Concat([r \in 1..(nspecies + 1) |-> prof[r - 1]])

\* lines 371-378: one pass of the band-integration loop over the filters
Reduce(spec, old) ==
  [i \in 1..nfilters |->
     LET ind == wnindices[i]
         smp == [k \in 1..Len(ind) |-> spec[ind[k]]]
     IN  IF args2.solution = "eclipse"
           THEN bandintegrate(
                  [k \in 1..Len(ind) |->
                     (smp[k] * rprs[1] * rprs[1]) \div (istarfl[i][k] * rprs[2] * rprs[2])],
                  nifilter[i])
         ELSE IF args2.solution = "transit"
           THEN bandintegrate(smp, nifilter[i])
         ELSE old[i]]

-----------------------------------------------------------------------------
(* The peers.  A collective call completes when the peer group issues the  *)
(* matching call.  With peerLoop = "none" the peers are taken to match     *)
(* every call; with "counting" each peer walks through its own sequence of *)
(* collectives and serves the scatter/gather cycles of the budget of the   *)
(* handshake: as many as the loop of lines 327-328 makes passes.           *)

Max0(n) == IF n < 0 THEN 0 ELSE n

\* cycles a peer serves for budget n: one per value n, n-1, ..., 0
Cycles(n) == Max0(n + 1)

DriverReady(op) == peerLoop = "none" \/ driver.at = op

EngineReady(op) == peerLoop = "none" \/ engine.at = op

\* the driver after its call op completed; n is the budget it broadcast
DriverAfter(op, n) ==
  IF peerLoop = "none" THEN driver
  ELSE IF op = "bcast"
    THEN [at |-> IF Cycles(n) > 0 THEN "scatter" ELSE "disconnect", left |-> Cycles(n)]
  ELSE IF op = "scatter"
    THEN [driver EXCEPT !.at = "gather"]
  ELSE IF op = "gather"
    THEN [at |-> IF driver.left > 1 THEN "scatter" ELSE "disconnect",
          left |-> driver.left - 1]
  ELSE [driver EXCEPT !.at = "gone"]

\* the engine after its call op completed; n is the budget it was told
EngineAfter(op, n) ==
  IF peerLoop = "none" THEN engine
  ELSE IF op = "spawn"
    THEN [engine EXCEPT !.at = "gather_nwave"]
  ELSE IF op = "gather_nwave"
    THEN [engine EXCEPT !.at = "bcast"]
  ELSE IF op = "bcast"
    THEN [at |-> "gather_specwn", left |-> Cycles(n)]
  ELSE IF op = "gather_specwn"
    THEN [engine EXCEPT !.at = IF engine.left > 0 THEN "scatter" ELSE "barrier"]
  ELSE IF op = "scatter"
    THEN [engine EXCEPT !.at = "gather"]
  ELSE IF op = "gather"
    THEN [at |-> IF engine.left > 1 THEN "scatter" ELSE "barrier",
          left |-> engine.left - 1]
  ELSE IF op = "barrier"
    THEN [engine EXCEPT !.at = "disconnect"]
  ELSE [engine EXCEPT !.at = "gone"]

-----------------------------------------------------------------------------
(* Initial state: main() is entered, nothing is parsed or allocated yet *)

InitWorker ==
  /\ pc = "parse"
  /\ args2 = [solution |-> SolutionDefault, molfit |-> <<>>, ffile |-> <<>>]
  /\ atm = [pressure |-> <<>>, abundances |-> <<>>, iH2 |-> -1, iHe |-> -1,
            ratio |-> <<>>, imetals |-> {}]
  /\ array1 = <<0, 0>>
  /\ niter = 0
  /\ imol = <<>>
  /\ params = <<>>
  /\ profiles = <<>>
  /\ ptError = FALSE
  /\ nwave = 0
  /\ specwn = <<>>
  /\ nifilter = <<>>
  /\ istarfl = <<>>
  /\ wnindices = <<>>
  /\ spectrum = <<>>
  /\ bandflux = <<>>
  /\ driverOut = <<>>
  /\ engineOut = <<>>
  /\ log = <<>>
  /\ driver = [at |-> "bcast", left |-> 0]
  /\ engine = [at |-> "spawn", left |-> 0]

Init == InitWorker /\ peerLoop = "none"

InitPeers == InitWorker /\ peerLoop = "counting"

-----------------------------------------------------------------------------
(* Setup and handshake *)

\* lines 90-163: options come from the defaults, the configuration file or
\* the command line; argparse checks only command-line values against choices
ParseArgs ==
  /\ pc = "parse"
  /\ \E src \in {"default", "config", "cli"},
        sol \in SolutionChoices \cup {"emission"},
        mf \in MolfitSet, ff \in FfileSet :
       IF src = "cli" /\ sol \notin SolutionChoices
         THEN /\ pc' = "exit"
              /\ args2' = args2
         ELSE /\ pc' = "bcast_in"
              /\ args2' = [solution |-> IF src = "default" THEN SolutionDefault ELSE sol,
                           molfit |-> mf, ffile |-> ff]
  /\ UNCHANGED <<atm, array1, niter, imol, params, profiles, ptError, nwave,
                 specwn, nifilter, istarfl, wnindices, spectrum, bandflux,
                 driverOut, engineOut, log, peerLoop, driver, engine>>

\* lines 172-175: mu.comm_bcast(comm, array1); npars, niter = array1
BcastIn ==
  /\ pc = "bcast_in"
  /\ DriverReady("bcast")
  /\ \E n \in Budgets :
       /\ array1' = <<nfree, n>>
       /\ niter' = n
       /\ driver' = DriverAfter("bcast", n)
  /\ log' = Append(log, Call("driver", "bcast", "npars_niter"))
  /\ pc' = "setup"
  /\ UNCHANGED <<args2, atm, imol, params, profiles, ptError, nwave, specwn, nifilter,
                 istarfl, wnindices, spectrum, bandflux, driverOut, engineOut,
                 peerLoop, engine>>

\* Setup without the failing index assignment of line 224: a molecule that
\* is not in the species list is given index 0 and execution continues.
Setup_NoCheck ==
  /\ pc = "setup"
  /\ pc' = "spawn"
  /\ imol' = [i \in 1..nmolfit |->
               IF Where(args2.molfit[i]) = {} THEN 0
               ELSE CHOOSE k \in Where(args2.molfit[i]) : TRUE]
  /\ params' = cfgParams
  /\ profiles' = [r \in 0..nspecies |->
                    IF r = 0 THEN [l \in 1..nlayers |-> 0]
                    ELSE [l \in 1..nlayers |-> ReadAtm.abundances[l][r]]]
  /\ atm' = ReadAtm
  /\ UNCHANGED <<args2, array1, niter, ptError, nwave, specwn, nifilter, istarfl,
                 wnindices, spectrum, bandflux, driverOut, engineOut, log,
                 peerLoop, driver, engine>>


\* lines 178-246: read the atmosphere, index the species, allocate the arrays.
\* imol[i] = np.where(...)[0] raises when the name is not in species.
Setup ==
  /\ pc = "setup"
  /\ IF \E i \in 1..nmolfit : Where(args2.molfit[i]) = {}
       THEN /\ pc' = "crash"
            /\ UNCHANGED <<imol, params, profiles>>
       ELSE /\ pc' = "spawn"
            /\ imol' = [i \in 1..nmolfit |-> CHOOSE k \in Where(args2.molfit[i]) : TRUE]
            /\ params' = cfgParams
            /\ profiles' = [r \in 0..nspecies |->
                              IF r = 0 THEN [l \in 1..nlayers |-> 0]
                              ELSE [l \in 1..nlayers |-> ReadAtm.abundances[l][r]]]
  /\ atm' = ReadAtm
  /\ UNCHANGED <<args2, array1, niter, ptError, nwave, specwn, nifilter, istarfl,
                 wnindices, spectrum, bandflux, driverOut, engineOut, log,
                 peerLoop, driver, engine>>

\* lines 261-263: transitcomm = mu.comm_spawn(...)
SpawnTransit ==
  /\ pc = "spawn"
  /\ EngineReady("spawn")
  /\ engine' = EngineAfter("spawn", 0)
  /\ log' = Append(log, Call("engine", "spawn", "transit"))
  /\ pc' = "gather_nwave"
  /\ UNCHANGED <<wvars, peerLoop, driver>>

\* variant of GatherNwave after which the grid is gathered before the
\* payload size is broadcast
GatherNwave_ThenSpecwn ==
  /\ pc = "gather_nwave"
  /\ EngineReady("gather_nwave")
  /\ \E n \in NwaveSet : nwave' = n
  /\ engine' = EngineAfter("gather_nwave", 0)
  /\ log' = Append(log, Call("engine", "gather", "nwave"))
  /\ pc' = "gather_specwn"
  /\ UNCHANGED <<args2, atm, array1, niter, imol, params, profiles, ptError, specwn,
                 nifilter, istarfl, wnindices, spectrum, bandflux, driverOut,
                 engineOut, peerLoop, driver>>

\* lines 265-268: mu.comm_gather(transitcomm, arrsize); nwave = arrsize[0]
GatherNwave ==
  /\ pc = "gather_nwave"
  /\ EngineReady("gather_nwave")
  /\ \E n \in NwaveSet : nwave' = n
  /\ engine' = EngineAfter("gather_nwave", 0)
  /\ log' = Append(log, Call("engine", "gather", "nwave"))
  /\ pc' = "bcast_out"
  /\ UNCHANGED <<args2, atm, array1, niter, imol, params, profiles, ptError, specwn,
                 nifilter, istarfl, wnindices, spectrum, bandflux, driverOut,
                 engineOut, peerLoop, driver>>

\* lines 270-272: mu.comm_bcast(transitcomm, [nprofile, niter])
BcastOut ==
  /\ pc = "bcast_out"
  /\ EngineReady("bcast")
  /\ engineOut' = <<nprofile, niter>>
  /\ engine' = EngineAfter("bcast", niter)
  /\ log' = Append(log, Call("engine", "bcast", "nprofile_niter"))
  /\ pc' = "gather_specwn"
  /\ UNCHANGED <<args2, atm, array1, niter, imol, params, profiles, ptError, nwave,
                 specwn, nifilter, istarfl, wnindices, spectrum, bandflux,
                 driverOut, peerLoop, driver>>

\* lines 274-276: mu.comm_gather(transitcomm, specwn)
GatherSpecwn ==
  /\ pc = "gather_specwn"
  /\ EngineReady("gather_specwn")
  /\ specwn' = Grid(nwave)
  /\ engine' = EngineAfter("gather_specwn", 0)
  /\ log' = Append(log, Call("engine", "gather", "specwn"))
  /\ pc' = "filters"
  /\ UNCHANGED <<args2, atm, array1, niter, imol, params, profiles, ptError, nwave,
                 nifilter, istarfl, wnindices, spectrum, bandflux, driverOut,
                 engineOut, peerLoop, driver>>

\* the filters the loop of lines 299-315 resamples before it stops: all of
\* them, or those before the first one outside the spectrum's range
FiltersDone ==
  LET bad == {i \in 1..nfilters : FilterOutside(args2.ffile[i], specwn)}
  IN  IF bad = {} THEN nfilters
      ELSE (CHOOSE i \in bad : \A j \in bad : i <= j) - 1

\* lines 278-322: read and resample the filters (mu.exit on a filter outside
\* the range), allocate spectrum, bandflux and params
Filters ==
  /\ pc = "filters"
  /\ LET done == FiltersDone
         rs   == [i \in 1..done |-> resample(specwn, args2.ffile[i])]
     IN  /\ nifilter'  = [i \in 1..done |-> rs[i].nifilt]
         /\ istarfl'   = [i \in 1..done |-> rs[i].strfl]
         /\ wnindices' = [i \in 1..done |-> rs[i].wnind]
         /\ IF done < nfilters
              THEN /\ pc' = "exit"
                   /\ UNCHANGED <<spectrum, bandflux, params>>
              ELSE /\ pc' = "loop"
                   /\ spectrum' = [k \in 1..nwave |-> 0]
                   /\ bandflux' = [i \in 1..nfilters |-> 0]
                   /\ params' = [i \in 1..array1[1] |-> 0]
  /\ UNCHANGED <<args2, atm, array1, niter, imol, profiles, ptError, nwave, specwn,
                 driverOut, engineOut, log, peerLoop, driver, engine>>

-----------------------------------------------------------------------------
(* Main MCMC loop *)

\* variant of LoopTest that tests niter > 0
LoopTest_Strict ==
  /\ pc = "loop"
  /\ IF niter > 0
       THEN /\ niter' = niter - 1
            /\ pc' = "scatter_params"
       ELSE /\ niter' = niter
            /\ pc' = "disconnect_driver"
  /\ UNCHANGED <<args2, atm, array1, imol, params, profiles, ptError, nwave, specwn,
                 nifilter, istarfl, wnindices, spectrum, bandflux, driverOut,
                 engineOut, log, peerLoop, driver, engine>>

\* the loop head taking two off the counter per pass
LoopTest_DecrementTwo ==
  /\ pc = "loop"
  /\ IF niter >= 0
       THEN /\ niter' = niter - 2
            /\ pc' = "scatter_params"
       ELSE /\ niter' = niter
            /\ pc' = "disconnect_driver"
  /\ UNCHANGED <<args2, atm, array1, imol, params, profiles, ptError, nwave, specwn,
                 nifilter, istarfl, wnindices, spectrum, bandflux, driverOut,
                 engineOut, log, peerLoop, driver, engine>>

\* lines 327-328: while niter >= 0: niter -= 1
LoopTest ==
  /\ pc = "loop"
  /\ IF niter >= 0
       THEN /\ niter' = niter - 1
            /\ pc' = "scatter_params"
       ELSE /\ niter' = niter
            /\ pc' = "disconnect_driver"
  /\ UNCHANGED <<args2, atm, array1, imol, params, profiles, ptError, nwave, specwn,
                 nifilter, istarfl, wnindices, spectrum, bandflux, driverOut,
                 engineOut, log, peerLoop, driver, engine>>

\* line 331: mu.comm_scatter(comm, params)
ScatterParams ==
  /\ pc = "scatter_params"
  /\ DriverReady("scatter")
  /\ \E v \in ParamSet : params' = v
  /\ ptError' = FALSE
  /\ driver' = DriverAfter("scatter", 0)
  /\ log' = Append(log, Call("driver", "scatter", "params"))
  /\ pc' = "pt"
  /\ UNCHANGED <<args2, atm, array1, niter, imol, profiles, nwave, specwn, nifilter,
                 istarfl, wnindices, spectrum, bandflux, driverOut, engineOut,
                 peerLoop, engine>>

\* the except branch of lines 338-340 clearing the temperature row
InputConverter_ResetOnError ==
  /\ pc = "pt"
  /\ LET T == PT_generator(pressure, SubSeq(params, 1, nPT))
     IN  IF T.raises
           THEN /\ ptError' = TRUE
                /\ profiles' = [profiles EXCEPT ![0] = [l \in 1..nlayers |-> 0]]
           ELSE /\ ptError' = FALSE
                /\ profiles' = [profiles EXCEPT ![0] = Reverse(T.value)]
  /\ pc' = "bounds"
  /\ UNCHANGED <<args2, atm, array1, niter, imol, params, nwave, specwn, nifilter,
                 istarfl, wnindices, spectrum, bandflux, driverOut, engineOut,
                 log, peerLoop, driver, engine>>


\* lines 335-340: profiles[0] = PT_generator(...)[::-1], unless it raises
\* ValueError, which leaves profiles[0] as it was
InputConverter ==
  /\ pc = "pt"
  /\ LET T == PT_generator(pressure, SubSeq(params, 1, nPT))
     IN  IF T.raises
           THEN /\ ptError' = TRUE
                /\ profiles' = profiles
           ELSE /\ ptError' = FALSE
                /\ profiles' = [profiles EXCEPT ![0] = Reverse(T.value)]
  /\ pc' = "bounds"
  /\ UNCHANGED <<args2, atm, array1, niter, imol, params, nwave, specwn, nifilter,
                 istarfl, wnindices, spectrum, bandflux, driverOut, engineOut,
                 log, peerLoop, driver, engine>>

\* line 343: if np.any(profiles[0] < Tmin) or np.any(profiles[0] > Tmax)
BoundsCheck ==
  /\ pc = "bounds"
  /\ pc' = IF OutOfBounds(profiles[0]) THEN "gather_sentinel" ELSE "scale"
  /\ UNCHANGED <<wvars, log, peerLoop, driver, engine>>

\* variant of GatherSentinel that continues without the gather
GatherSentinel_NoGather ==
  /\ pc = "gather_sentinel"
  /\ pc' = "loop"
  /\ UNCHANGED <<wvars, log, peerLoop, driver, engine>>

\* lines 344-346: mu.comm_gather(comm, -np.ones(nfilters)); continue
GatherSentinel ==
  /\ pc = "gather_sentinel"
  /\ DriverReady("gather")
  /\ driverOut' = Sentinel
  /\ driver' = DriverAfter("gather", 0)
  /\ log' = Append(log, Call("driver", "gather", "sentinel"))
  /\ pc' = "loop"
  /\ UNCHANGED <<args2, atm, array1, niter, imol, params, profiles, ptError, nwave,
                 specwn, nifilter, istarfl, wnindices, spectrum, bandflux,
                 engineOut, peerLoop, engine>>

\* the abundance step going on to the engine gather without the scatter of
\* line 363
ScaleAbundances_ThenGather ==
  /\ pc = "scale"
  /\ profiles' = Rebalance(ScaleRows(profiles, params, 1))
  /\ pc' = "gather_spectrum"
  /\ UNCHANGED <<args2, atm, array1, niter, imol, params, ptError, nwave, specwn,
                 nifilter, istarfl, wnindices, spectrum, bandflux, driverOut,
                 engineOut, log, peerLoop, driver, engine>>


\* the abundance step scaling the baseline matrix itself, in place
ScaleAbundances_InPlace ==
  /\ pc = "scale"
  /\ profiles' = Rebalance(ScaleRows(profiles, params, 1))
  /\ atm' = [atm EXCEPT !.abundances =
               [l \in 1..nlayers |-> [k \in 1..nspecies |->
                  ScaleRows(profiles, params, 1)[k][l]]]]
  /\ pc' = "scatter_profiles"
  /\ UNCHANGED <<args2, array1, niter, imol, params, ptError, nwave, specwn,
                 nifilter, istarfl, wnindices, spectrum, bandflux, driverOut,
                 engineOut, log, peerLoop, driver, engine>>

\* lines 350-358: scale the fit abundances, rebalance H2 and He
ScaleAbundances ==
  /\ pc = "scale"
  /\ profiles' = Rebalance(ScaleRows(profiles, params, 1))
  /\ pc' = "scatter_profiles"
  /\ UNCHANGED <<args2, atm, array1, niter, imol, params, ptError, nwave, specwn,
                 nifilter, istarfl, wnindices, spectrum, bandflux, driverOut,
                 engineOut, log, peerLoop, driver, engine>>

\* line 363: mu.comm_scatter(transitcomm, profiles.flatten())
ScatterProfiles ==
  /\ pc = "scatter_profiles"
  /\ EngineReady("scatter")
  /\ engineOut' = Flatten(profiles)
  /\ engine' = EngineAfter("scatter", 0)
  /\ log' = Append(log, Call("engine", "scatter", "profiles"))
  /\ pc' = "gather_spectrum"
  /\ UNCHANGED <<args2, atm, array1, niter, imol, params, profiles, ptError, nwave,
                 specwn, nifilter, istarfl, wnindices, spectrum, bandflux,
                 driverOut, peerLoop, driver>>

\* line 366: mu.comm_gather(transitcomm, spectrum)
GatherSpectrum ==
  /\ pc = "gather_spectrum"
  /\ EngineReady("gather")
  /\ \E sp \in Spectra(Len(spectrum)) : spectrum' = sp
  /\ engine' = EngineAfter("gather", 0)
  /\ log' = Append(log, Call("engine", "gather", "spectrum"))
  /\ pc' = "bandintegrate"
  /\ UNCHANGED <<args2, atm, array1, niter, imol, params, profiles, ptError, nwave,
                 specwn, nifilter, istarfl, wnindices, bandflux, driverOut,
                 engineOut, peerLoop, driver>>

\* lines 368-378: band-integrate the spectrum per filter
OutputConverter ==
  /\ pc = "bandintegrate"
  /\ bandflux' = Reduce(spectrum, bandflux)
  /\ pc' = "gather_bandflux"
  /\ UNCHANGED <<args2, atm, array1, niter, imol, params, profiles, ptError, nwave,
                 specwn, nifilter, istarfl, wnindices, spectrum, driverOut,
                 engineOut, log, peerLoop, driver, engine>>

\* line 383: mu.comm_gather(comm, bandflux)
GatherBandflux ==
  /\ pc = "gather_bandflux"
  /\ DriverReady("gather")
  /\ driverOut' = bandflux
  /\ driver' = DriverAfter("gather", 0)
  /\ log' = Append(log, Call("driver", "gather", "bandflux"))
  /\ pc' = "loop"
  /\ UNCHANGED <<args2, atm, array1, niter, imol, params, profiles, ptError, nwave,
                 specwn, nifilter, istarfl, wnindices, spectrum, bandflux,
                 engineOut, peerLoop, engine>>

-----------------------------------------------------------------------------
(* Teardown *)

\* line 390: mu.comm_disconnect(comm)
DisconnectDriver ==
  /\ pc = "disconnect_driver"
  /\ DriverReady("disconnect")
  /\ driver' = DriverAfter("disconnect", 0)
  /\ log' = Append(log, Call("driver", "disconnect", "comm"))
  /\ pc' = "barrier"
  /\ UNCHANGED <<wvars, peerLoop, engine>>

\* line 394: transitcomm.Barrier()
BarrierTransit ==
  /\ pc = "barrier"
  /\ EngineReady("barrier")
  /\ engine' = EngineAfter("barrier", 0)
  /\ log' = Append(log, Call("engine", "barrier", "transitcomm"))
  /\ pc' = "disconnect_engine"
  /\ UNCHANGED <<wvars, peerLoop, driver>>

\* line 395: transitcomm.Disconnect()
DisconnectTransit ==
  /\ pc = "disconnect_engine"
  /\ EngineReady("disconnect")
  /\ engine' = EngineAfter("disconnect", 0)
  /\ log' = Append(log, Call("engine", "disconnect", "transitcomm"))
  /\ pc' = "done"
  /\ UNCHANGED <<wvars, peerLoop, driver>>

-----------------------------------------------------------------------------
(* Specifications *)

Next ==
  \/ ParseArgs
  \/ BcastIn
  \/ Setup
  \/ SpawnTransit
  \/ GatherNwave
  \/ BcastOut
  \/ GatherSpecwn
  \/ Filters
  \/ LoopTest
  \/ ScatterParams
  \/ InputConverter
  \/ BoundsCheck
  \/ GatherSentinel
  \/ ScaleAbundances
  \/ ScatterProfiles
  \/ GatherSpectrum
  \/ OutputConverter
  \/ GatherBandflux
  \/ DisconnectDriver
  \/ BarrierTransit
  \/ DisconnectTransit

\* the worker alone, its peers matching every collective call
Spec == Init /\ [][Next]_vars

\* the same, the process being scheduled as long as a step is possible
FairSpec == Init /\ [][Next]_vars /\ WF_vars(Next)

\* the worker with a driver and an engine that count their own cycles
SpecPeers == InitPeers /\ [][Next]_vars

-----------------------------------------------------------------------------
(* Vocabulary of the properties *)

IsDriverData(c) == c.ch = "driver" /\ c.op \in {"scatter", "gather"}
IsParams(c)     == c.what = "params"
IsProfiles(c)   == c.what = "profiles"
IsSpectrum(c)   == c.what = "spectrum"
IsSentinel(c)   == c.what = "sentinel"
IsBandflux(c)   == c.what = "bandflux"
IsTeardown(c)   == c.op \in {"disconnect", "barrier"}

DriverCalls  == SelectSeq(log, IsDriverData)
NumPasses    == Len(SelectSeq(log, IsParams))
NumProfiles  == Len(SelectSeq(log, IsProfiles))
NumSpectra   == Len(SelectSeq(log, IsSpectrum))
NumSentinels == Len(SelectSeq(log, IsSentinel))
NumBandflux  == Len(SelectSeq(log, IsBandflux))

\* the budget received at handshake, and the passes started so far
Budget == array1[2]
PassesStarted == Budget - niter

\* the calls of the latest pass: from its scatter of the parameters on
LastPass ==
  LET starts == {i \in 1..Len(log) : IsParams(log[i])}
  IN  IF starts = {} THEN <<>>
      ELSE SubSeq(log, CHOOSE i \in starts : \A j \in starts : j <= i, Len(log))

HandshakeCalls ==
  << Call("driver", "bcast", "npars_niter"),
     Call("engine", "spawn", "transit"),
     Call("engine", "gather", "nwave"),
     Call("engine", "bcast", "nprofile_niter"),
     Call("engine", "gather", "specwn") >>

FullCycle ==
  << Call("driver", "scatter", "params"),
     Call("engine", "scatter", "profiles"),
     Call("engine", "gather", "spectrum"),
     Call("driver", "gather", "bandflux") >>

SentinelCycle ==
  << Call("driver", "scatter", "params"),
     Call("driver", "gather", "sentinel") >>

TeardownCalls ==
  << Call("driver", "disconnect", "comm"),
     Call("engine", "barrier", "transitcomm"),
     Call("engine", "disconnect", "transitcomm") >>

InPassPcs  == {"pt", "bounds", "gather_sentinel", "scale", "scatter_profiles",
               "gather_spectrum", "bandintegrate", "gather_bandflux"}
EnginePcs  == {"scale", "scatter_profiles", "gather_spectrum", "bandintegrate",
               "gather_bandflux"}
LoopPcs    == {"loop", "scatter_params"} \cup InPassPcs
AfterLoop  == {"disconnect_driver", "barrier", "disconnect_engine", "done"}

\* some layer of the temperature row is strictly below Tmin or strictly above Tmax
TempOutside ==
  \E l \in DOMAIN profiles[0] : profiles[0][l] < Tmin \/ profiles[0][l] > Tmax

\* a pass has just ended
PassEnded == pc = "loop" /\ NumPasses >= 1

AllMinusOne(v) == \A i \in DOMAIN v : v[i] = -1

-----------------------------------------------------------------------------
(* Properties *)

\* C1: after the handshake the driver-channel data calls alternate scatter,
\* gather, scatter, gather, ...; every pass issues exactly one scatter-in and
\* one gather-out, whatever its outcome, and no pass ends without its gather.
C1_DriverAlternates ==
  LET d == DriverCalls
  IN  /\ \A i \in 1..Len(d) : d[i].op = IF i % 2 = 1 THEN "scatter" ELSE "gather"
      /\ pc \in {"loop"} \cup AfterLoop => Len(d) = 2 * PassesStarted
      /\ pc = "scatter_params" => Len(d) = 2 * (PassesStarted - 1)
      /\ pc \in InPassPcs => Len(d) = 2 * PassesStarted - 1

\* C1 witness: a run whose passes ended in a sentinel, in computed fluxes and
\* (the latest) after a ValueError of the profile generator
C1_Witness ==
  /\ pc = "loop"
  /\ ptError
  /\ NumSentinels >= 1
  /\ NumBandflux >= 1

\* C2: a pass with a layer below Tmin or above Tmax gathers to the driver a
\* vector of exactly nfilters entries, all -1, and issues no call on the
\* engine channel.
C2_OutOfBoundsSentinel ==
  /\ (pc \in EnginePcs => ~TempOutside)
  /\ (PassEnded /\ TempOutside =>
        /\ Len(driverOut) = Len(args2.ffile)
        /\ AllMinusOne(driverOut)
        /\ LastPass = SentinelCycle)

\* C2 witness: a pass that ended with one layer above Tmax and the other inside
C2_Witness ==
  /\ PassEnded
  /\ \E l \in DOMAIN profiles[0] : profiles[0][l] > Tmax
  /\ \E l \in DOMAIN profiles[0] : profiles[0][l] >= Tmin /\ profiles[0][l] <= Tmax
  /\ NumBandflux >= 1

\* C3 as stated: with budget N >= 0 and every pass in bounds the worker
\* performs exactly N passes before teardown.
C3_ExactlyBudgetPasses ==
  (pc \in AfterLoop /\ Budget >= 0 /\ NumSentinels = 0) =>
     (NumPasses = Budget /\ NumBandflux = Budget)

\* C3 amended: with budget N >= 0 and every pass in bounds the worker performs
\* exactly N + 1 passes, each a full driver-scatter / engine-scatter /
\* engine-gather / driver-gather cycle, and then goes to teardown; there is
\* never an (N+2)-th pass.
C3_BudgetPlusOnePasses ==
  /\ (Len(log) >= Len(HandshakeCalls) /\ Budget >= 0 => NumPasses <= Budget + 1)
  /\ (pc \in AfterLoop /\ Budget >= 0 /\ NumSentinels = 0 =>
        /\ NumPasses = Budget + 1
        /\ \A j \in 0..Budget :
             SubSeq(log, Len(HandshakeCalls) + 4 * j + 1,
                         Len(HandshakeCalls) + 4 * j + 4) = FullCycle
        /\ (Len(log) > Len(HandshakeCalls) + 4 * (Budget + 1) =>
              IsTeardown(log[Len(HandshakeCalls) + 4 * (Budget + 1) + 1])))

\* C3 witness: budget 2, three passes in bounds, teardown complete
C3_Witness ==
  /\ pc = "done"
  /\ Budget = 2
  /\ NumSentinels = 0
  /\ NumBandflux = 3

\* the worker waits in a collective call that its peer is not issuing
WorkerBlocked ==
  \/ pc = "bcast_in" /\ driver.at # "bcast"
  \/ pc = "scatter_params" /\ driver.at # "scatter"
  \/ pc \in {"gather_sentinel", "gather_bandflux"} /\ driver.at # "gather"
  \/ pc = "disconnect_driver" /\ driver.at # "disconnect"
  \/ pc = "spawn" /\ engine.at # "spawn"
  \/ pc = "gather_nwave" /\ engine.at # "gather_nwave"
  \/ pc = "bcast_out" /\ engine.at # "bcast"
  \/ pc = "gather_specwn" /\ engine.at # "gather_specwn"
  \/ pc = "scatter_profiles" /\ engine.at # "scatter"
  \/ pc = "gather_spectrum" /\ engine.at # "gather"
  \/ pc = "barrier" /\ engine.at # "barrier"
  \/ pc = "disconnect_engine" /\ engine.at # "disconnect"

\* C4: with a driver and an engine that serve the cycles of the budget, no
\* party is ever left blocked in a collective call its peer never issues.
\* (The peers move only together with the worker, so a worker that waits in
\* a call its peer is not issuing waits forever.)
C4_NoPartyBlocked ==
  peerLoop = "counting" =>
    /\ ~WorkerBlocked
    /\ (pc = "done" => driver.at = "gone" /\ engine.at = "gone")

\* C5: a pass whose profile generator raised ValueError ends by gathering the
\* sentinel vector to the driver.
C5_InvalidProfileSentinel ==
  (PassEnded /\ ptError) =>
     (log[Len(log)].what = "sentinel" /\ AllMinusOne(driverOut))

\* C6: the worker never enters the iteration loop with a solution mode other
\* than transit or eclipse, and never gathers to the driver fluxes that the
\* band integration of that pass did not compute.
C6_UnknownModeFatal ==
  pc \in LoopPcs \cup AfterLoop => args2.solution \in {"transit", "eclipse"}

\* the bounds decision alone: a pass takes the sentinel branch iff some layer
\* is strictly below Tmin or strictly above Tmax, and otherwise runs the
\* full engine cycle and gathers the bandflux array, never the -1 vector
BoundsDecisionExact ==
  /\ (pc = "gather_sentinel" => TempOutside)
  /\ (pc \in EnginePcs => ~TempOutside)
  /\ (PassEnded =>
        IF TempOutside
          THEN LastPass = SentinelCycle
          ELSE /\ LastPass = FullCycle
               /\ driverOut = bandflux
               /\ ~AllMinusOne(driverOut))

\* the fluxes gathered to the driver were computed from the spectrum of the
\* pass: a branch of the band integration assigned every entry
FluxesComputed ==
  /\ args2.solution \in {"transit", "eclipse"}
  /\ driverOut = Reduce(spectrum, driverOut)

\* C7: a pass is out of bounds iff some layer is strictly below Tmin or
\* strictly above Tmax; a pass in [Tmin, Tmax], the ends included, drives
\* the engine and returns computed observables, not the sentinel.
C7_BoundsDecision ==
  /\ BoundsDecisionExact
  /\ (PassEnded /\ ~TempOutside => FluxesComputed)

\* C8: the handshake is broadcast-in, spawn, gather of the sample count,
\* broadcast-out, gather of the grid, in this order and each once; every
\* other call comes after it.
C8_HandshakeOrder ==
  /\ \A i \in 1..Len(log) :
       IF i <= Len(HandshakeCalls)
         THEN log[i] = HandshakeCalls[i]
         ELSE \A h \in 1..Len(HandshakeCalls) : log[i] # HandshakeCalls[h]
  /\ (pc \in LoopPcs \cup AfterLoop => Len(log) >= Len(HandshakeCalls))

\* C8 witness: a pass ran to its end after the handshake
C8_Witness ==
  /\ PassEnded
  /\ Len(log) > Len(HandshakeCalls) + 2
  /\ nwave = 3

\* the calls from the first teardown call on
TeardownSuffix ==
  LET td == {i \in 1..Len(log) : IsTeardown(log[i])}
  IN  IF td = {} THEN <<>>
      ELSE SubSeq(log, CHOOSE i \in td : \A j \in td : i <= j, Len(log))

\* C9, order: teardown calls are issued only after the loop has exited, as
\* disconnect of the driver, barrier on the engine, disconnect of the engine;
\* nothing follows a channel's disconnect on that channel.
C9_TeardownOrder ==
  /\ Len(TeardownSuffix) <= Len(TeardownCalls)
  /\ TeardownSuffix = SubSeq(TeardownCalls, 1, Len(TeardownSuffix))
  /\ (TeardownSuffix # <<>> => niter < 0 /\ pc \in AfterLoop)
  /\ (pc \in AfterLoop => niter < 0 /\ Len(DriverCalls) % 2 = 0)
  /\ (pc = "done" <=> TeardownSuffix = TeardownCalls)

\* C9: teardown in this order, and once entered it reaches DONE: no
\* teardown call is left waiting (a worker in teardown can take its step).
C9_Teardown ==
  /\ C9_TeardownOrder
  /\ (pc \in {"disconnect_driver", "barrier", "disconnect_engine"} => ENABLED Next)

\* some configured filter starts below the first or ends above the last
\* sample of the received grid
FilterUncovered ==
  /\ specwn # <<>>
  /\ \E i \in 1..Len(args2.ffile) :
       \/ args2.ffile[i][1] < specwn[1]
       \/ args2.ffile[i][2] > specwn[Len(specwn)]

\* C10: with a filter not covered by the received grid the worker stops
\* before the loop: no scatter-in of parameters, no scatter of profiles.
C10_FilterRangeFatal ==
  FilterUncovered =>
    /\ pc \in {"filters", "exit"}
    /\ NumPasses = 0
    /\ NumProfiles = 0
    /\ \A i \in 1..Len(log) : log[i].op # "scatter"

\* C10 witness: stopped on a second filter that ends above the last sample
C10_Witness ==
  /\ pc = "exit"
  /\ specwn # <<>>
  /\ args2.ffile[1][1] >= specwn[1] /\ args2.ffile[1][2] <= specwn[Len(specwn)]
  /\ args2.ffile[2][2] > specwn[Len(specwn)]

\* some fit-molecule name of the configuration is not a species of the
\* atmosphere file
MolMissing ==
  \E i \in 1..Len(args2.molfit) :
    \A k \in 1..Len(species) : species[k] # args2.molfit[i]

\* C11: with a fit-molecule name that is not in the species list the worker
\* never gets past setup: the engine is never spawned, no pass starts and no
\* species index is stored; inside the loop every stored index is the
\* position of its molecule in the species list.
C11_MissingMoleculeFatal ==
  /\ MolMissing =>
        /\ pc \in {"parse", "exit", "bcast_in", "setup", "crash"}
        /\ \A i \in 1..Len(log) : log[i].op # "spawn"
        /\ NumPasses = 0
        /\ imol = <<>>
  /\ pc \in LoopPcs =>
        /\ Len(imol) = Len(args2.molfit)
        /\ \A i \in 1..Len(imol) :
              /\ imol[i] \in 0..(Len(species) - 1)
              /\ species[imol[i] + 1] = args2.molfit[i]

\* C11 witness: stopped in setup on a missing molecule, after the driver
\* broadcast and nothing else
C11_Witness ==
  /\ pc = "crash"
  /\ MolMissing
  /\ Len(log) = 1
  /\ log[1].ch = "driver" /\ log[1].op = "bcast"

\* the value of row r (0 = temperature, k = species k) at layer l in the
\* flat vector last scattered to the engine
Sent(r, l) == engineOut[r * Len(filePressure) + l]

\* position (1-based) of a name in the species list of the file
RowOf(name) == CHOOSE k \in 1..Len(species) : species[k] = name

\* 1 - sum(metal rows) of the scattered matrix at layer l
Residual(l) ==
  One - SumSeq([k \in 1..Len(species) |->
                  IF species[k] \in {"H2", "He"} THEN 0 ELSE Sent(k, l)])

\* C12: in the matrix scattered to the engine, for every layer, the abundance
\* rows sum to 1, the H2 row is ratio*residual/(1+ratio) and the He row is
\* residual/(1+ratio), so H2 : He is the baseline ratio of the layer (the
\* ratio n/d is written H2*(n+d) = n*residual, He*(n+d) = d*residual).
C12_AbundancesSumToOne ==
  (pc = "gather_spectrum") =>
    \A l \in 1..Len(filePressure) :
      LET a  == fileAbundances[l][RowOf("H2")]
          b  == fileAbundances[l][RowOf("He")]
          g  == GCD(a, b)
          n  == a \div g
          d  == b \div g
          h2 == Sent(RowOf("H2"), l)
          he == Sent(RowOf("He"), l)
      IN  /\ SumSeq([k \in 1..Len(species) |-> Sent(k, l)]) = One
          /\ h2 * (n + d) = n * Residual(l)
          /\ he * (n + d) = d * Residual(l)
          /\ h2 * d = he * n

\* C12 witness: baseline 8:2 with water at 1e-4 scaled by 10^-1 has been
\* scattered: water 1e-5, H2 0.799992, He 0.199998 in the first layer
C12_Witness ==
  /\ pc = "gather_spectrum"
  /\ params[3] = -1
  /\ Sent(RowOf("H2O"), 1) = 10
  /\ Sent(RowOf("H2"), 1) = 799992
  /\ Sent(RowOf("He"), 1) = 199998

\* the temperature row a pass with parameter vector par uses if it depends on
\* par and the setup data alone: the reversed generator output, or, when the
\* generator raises, the row a first pass has then (the zeros of line 245)
TempOf(par) ==
  LET T == PT_generator(Reverse(filePressure), SubSeq(par, 1, nPT))
  IN  IF T.raises THEN [l \in 1..Len(filePressure) |-> 0] ELSE Reverse(T.value)

\* the matrix built from par and the baseline abundances alone
ProfilesOf(par) ==
  Rebalance(ScaleRows([r \in 0..Len(species) |->
                         IF r = 0 THEN TempOf(par)
                         ELSE [l \in 1..Len(filePressure) |-> fileAbundances[l][r]]],
                      par, 1))

\* C13: the temperature row checked against the bounds and the matrix
\* scattered to the engine are those built from the pass's own parameter
\* vector and the setup data, whatever passes ran before.
C13_ProfilesFromParamsOnly ==
  /\ (pc = "bounds") => profiles[0] = TempOf(params)
  /\ (pc = "gather_spectrum") => engineOut = Flatten(ProfilesOf(params))

\* the part of C13 that holds: in a pass whose generator call succeeded the
\* checked row and the scattered matrix depend on the parameters alone
C13_FreshWhenGeneratorSucceeds ==
  ~ptError => C13_ProfilesFromParamsOnly

\* one step of the worker seen from the counter: leaving the loop head into
\* a pass takes exactly one off a counter that was >= 0, leaving it for the
\* teardown happens only with a negative counter, and nothing inside a pass
\* (the out-of-bounds short-circuit included) touches the counter
C14_CounterStep ==
  /\ (pc = "loop" /\ pc' = "scatter_params") => (niter >= 0 /\ niter' = niter - 1)
  /\ (pc = "loop" /\ pc' = "disconnect_driver") => (niter < 0 /\ niter' = niter)
  /\ (pc = "loop" /\ pc' # "loop" /\ niter >= 0) => pc' = "scatter_params"
  /\ (pc = "loop" /\ pc' # "loop" /\ niter < 0) => pc' = "disconnect_driver"
  /\ (pc \in InPassPcs \cup {"scatter_params"}) => niter' = niter

\* at the loop head the counter is the budget less the passes started, of
\* whatever kind; with a negative budget there is no pass and no data call
C14_CounterInv ==
  /\ (pc = "loop") => (niter = array1[2] - NumPasses)
  /\ (pc \in LoopPcs \cup AfterLoop /\ array1[2] < 0) =>
        (pc # "scatter_params" /\ pc \notin InPassPcs /\ DriverCalls = <<>>
           /\ NumProfiles = 0)

\* C14: the counter goes down by exactly one per pass, out-of-bounds passes
\* included; a pass starts iff the counter is >= 0 when tested; the loop is
\* always left for the teardown; a negative budget gives no pass at all.
C14_LoopTerminates ==
  /\ []C14_CounterInv
  /\ [][C14_CounterStep]_vars
  /\ ((pc = "loop") ~> (pc = "disconnect_driver"))

\* C14 witness: the loop has been left after budget 1 gave two passes, one
\* of them short-circuited, and in another run after a negative budget
C14_Witness ==
  /\ pc = "disconnect_driver"
  /\ array1[2] = 1
  /\ niter = -1
  /\ NumPasses = 2
  /\ NumSentinels = 1
  /\ NumBandflux = 1

\* C15: a pass that passed the bounds check issues, in this order, the driver
\* scatter of the parameters, the engine scatter of the profiles, the engine
\* gather of the spectrum and the driver gather of the band fluxes: a profile
\* scatter directly follows the pass's parameter scatter, a spectrum gather
\* directly follows the profile scatter, and a band-flux gather directly
\* follows the spectrum gather.
C15_PassCallOrder ==
  /\ \A i \in 1..Len(log) :
        /\ log[i].what = "profiles" =>
              (i > 1 /\ log[i - 1] = Call("driver", "scatter", "params"))
        /\ log[i].what = "spectrum" =>
              (i > 1 /\ log[i - 1] = Call("engine", "scatter", "profiles"))
        /\ log[i].what = "bandflux" =>
              (i > 1 /\ log[i - 1] = Call("engine", "gather", "spectrum"))
  /\ (pc \in {"scale", "scatter_profiles"}) => LastPass = SubSeq(FullCycle, 1, 1)
  /\ (pc = "gather_spectrum") => LastPass = SubSeq(FullCycle, 1, 2)
  /\ (pc \in {"bandintegrate", "gather_bandflux"}) => LastPass = SubSeq(FullCycle, 1, 3)
  /\ (PassEnded /\ ~TempOutside) => LastPass = FullCycle

\* C15 witness: a short-circuited pass followed by a complete in-bounds pass
\* whose generator call succeeded
C15_Witness ==
  /\ PassEnded
  /\ ~ptError
  /\ ~TempOutside
  /\ NumPasses = 2
  /\ log[Len(log) - 4].what = "sentinel"
  /\ LastPass = FullCycle

\* a step of a pass seen from the temperature row: the generator step that
\* raises leaves the row as it was, and the row is written by no step other
\* than a generator step that succeeds
C16_RowStep ==
  (pc \in LoopPcs) =>
    /\ (pc = "pt" /\ ptError') => profiles'[0] = profiles[0]
    /\ (profiles'[0] # profiles[0]) => (pc = "pt" /\ ~ptError')

\* the outcome of a pass whose generator raised is the bounds decision on
\* the row left in place: the sentinel when a layer of it is outside, else
\* a full engine cycle that sent that row with the fit rows scaled from the
\* baseline by the new exponents
C16_StaleOutcome ==
  /\ (pc \in LoopPcs /\ NumPasses = 0) => profiles[0] = [l \in 1..Len(filePressure) |-> 0]
  /\ (PassEnded /\ ptError) =>
        IF TempOutside
          THEN LastPass = SentinelCycle /\ AllMinusOne(driverOut)
          ELSE /\ LastPass = FullCycle
               /\ \A l \in 1..Len(filePressure) :
                     /\ Sent(0, l) = profiles[0][l]
                     /\ \A i \in 1..Len(args2.molfit) :
                           Sent(RowOf(args2.molfit[i]), l) =
                             Scale10(fileAbundances[l][RowOf(args2.molfit[i])],
                                     params[Len(params) - Len(args2.molfit) + i])

\* C16: when the generator raises, the temperature row stays what the most
\* recent successful generator call wrote (all zeros if there was none), and
\* the pass ends as the bounds check decides on that row.
C16_StaleRowDecides ==
  /\ []C16_StaleOutcome
  /\ [][C16_RowStep]_vars

\* C16 witness: a pass whose generator raised completed a full engine cycle
\* on the row of an earlier pass with a new scaling exponent
C16_Witness ==
  /\ PassEnded
  /\ ptError
  /\ profiles[0] = <<400, 400>>
  /\ params[3] = -1
  /\ LastPass = FullCycle
  /\ Sent(RowOf("H2O"), 1) = 10

\* the latest collective call is a gather to the driver
DriverGathered ==
  /\ log # <<>>
  /\ log[Len(log)].ch = "driver"
  /\ log[Len(log)].op = "gather"

\* C17: the budget broadcast to the engine is the budget received from the
\* driver and the size broadcast with it is layers * (species + 1); every
\* vector scattered to the engine has that many values; the grid and every
\* spectrum gathered from the engine have as many values as the sample count
\* the engine reported; every vector gathered to the driver, sentinel or
\* computed, has one value per configured filter.
C17_PayloadShapes ==
  /\ (pc = "gather_specwn") =>
        engineOut = <<Len(filePressure) * (Len(species) + 1), array1[2]>>
  /\ (pc = "gather_spectrum") =>
        Len(engineOut) = Len(filePressure) * (Len(species) + 1)
  /\ (pc \in {"filters"} \cup LoopPcs \cup AfterLoop) => Len(specwn) = nwave
  /\ (pc \in LoopPcs \cup AfterLoop) => Len(spectrum) = nwave
  /\ DriverGathered => Len(driverOut) = Len(args2.ffile)

\* C17 witness: with three samples and two filters, a sentinel has been
\* gathered in one pass and computed fluxes after an engine cycle in the next
C17_Witness ==
  /\ PassEnded
  /\ nwave = 3
  /\ Len(args2.ffile) = 2
  /\ NumSentinels = 1
  /\ LastPass = FullCycle
  /\ Len(engineOut) = 10
  /\ Len(spectrum) = 3
  /\ Len(driverOut) = 2

\* a step of the loop leaves the structures of setup and handshake alone
C18_SetupStep ==
  (pc \in LoopPcs) =>
    /\ atm' = atm
    /\ imol' = imol
    /\ nwave' = nwave
    /\ specwn' = specwn
    /\ nifilter' = nifilter
    /\ istarfl' = istarfl
    /\ wnindices' = wnindices

\* in and after the loop the atmosphere is as read from the file, and the
\* abundance row of a species that is neither fit nor H2 or He is its
\* baseline
C18_SetupKept ==
  (pc \in LoopPcs \cup AfterLoop) =>
    /\ atm.pressure = Reverse(filePressure)
    /\ atm.abundances = fileAbundances
    /\ \A l \in 1..Len(filePressure) :
          atm.ratio[l][1] * fileAbundances[l][RowOf("He")] =
            atm.ratio[l][2] * fileAbundances[l][RowOf("H2")]
    /\ \A k \in 1..Len(species) :
          (/\ species[k] \notin {"H2", "He"}
           /\ \A i \in 1..Len(args2.molfit) : args2.molfit[i] # species[k])
          => profiles[k] = [l \in 1..Len(filePressure) |-> fileAbundances[l][k]]

\* C18: no pass of the loop modifies the pressure array, the baseline
\* abundances, the H2:He ratio, the species indices, the spectral grid or the
\* per-filter arrays, and the rows of species that are neither fit nor H2 or
\* He keep their baseline.
C18_SetupImmutable ==
  /\ []C18_SetupKept
  /\ [][C18_SetupStep]_vars

\* C18 witness: after a short-circuited pass and a full pass that scaled
\* water by 10^-1, the baseline still has water at 1e-4 and the carbon
\* monoxide row is the baseline row
C18_Witness ==
  /\ PassEnded
  /\ NumSentinels = 1
  /\ NumBandflux = 1
  /\ params[3] = -1
  /\ profiles[RowOf("H2O")] = <<10, 100>>
  /\ atm.abundances[1][RowOf("H2O")] = 100
  /\ profiles[RowOf("CO")] = <<0, 500>>

=============================================================================
